---- MODULE Spec2Model ----
(***************************************************************************)
(* The voice session of the VoiceAgent page (pages/VoiceAgent.tsx).        *)
(*                                                                         *)
(* The component keeps the session in React state: isConnected,            *)
(* isRecording, isProcessing, conversation, currentTranscription,          *)
(* textInput and voiceSettings.  A turn is driven by setTimeout callbacks: *)
(* two live-transcription updates after a capture starts, one agent        *)
(* response after a capture ends or a text is sent.  No handler ever       *)
(* clears a timer.  isMuted, settingsOpen and the toasts are written but   *)
(* never read by a handler and are left out.                               *)
(*                                                                         *)
(* Time is counted in ticks of 500 ms; a timer fires when its remaining    *)
(* delay is 0, in registration order, and time does not advance past a     *)
(* due timer.  User events may happen at any instant.                      *)
(*                                                                         *)
(* Text is a sequence of tokens; a string literal of the source is one     *)
(* token and " " is a whitespace token.                                    *)
(*                                                                         *)
(* turns, curTurn, connId, appended, lastOp and settingsChanges are        *)
(* history variables: they record what the handlers did (which turn a      *)
(* message or a timer belongs to, whether the page served the latest       *)
(* capture request) and never influence the state of the component.        *)
(*                                                                         *)
(* Three other parts of the front end have their own variables and their   *)
(* own specifications: the playback state of CallRecordings                *)
(* (pages/CallRecordings.tsx, time in ticks of 1000 ms), the edit dialog   *)
(* of ModelManagement (pages/ModelManagement.tsx) and the connection       *)
(* returned by createWebSocketConnection (services/api.ts).  An action of  *)
(* one part leaves the variables of the others unchanged.                  *)
(***************************************************************************)
EXTENDS Integers, Sequences, FiniteSets, TLC

VARIABLES
  isConnected, isRecording, conversation, currentTranscription,
  isProcessing, textInput, voiceSettings, timers,
  turns, curTurn, connId, appended, lastOp, settingsChanges,
  \* CallRecordings (components/CallRecordings.tsx)
  recordings, loading, playingId, playbackTimers, plays,
  \* ModelManagement (components/ModelManagement.tsx)
  models, editingModel, dialogOpen, modelClock,
  \* the connection of createWebSocketConnection (services/api.ts)
  readyState, transmitted, delivered, errorsReported, sendLog, received

uiVars == <<isConnected, isRecording, conversation, currentTranscription,
            isProcessing, textInput, voiceSettings>>
agentVars == <<isConnected, isRecording, conversation, currentTranscription,
               isProcessing, textInput, voiceSettings, timers,
               turns, curTurn, connId, appended, lastOp, settingsChanges>>
recordingsVars == <<recordings, loading, playingId, playbackTimers, plays>>
\* the state of the other components, which no handler of the page touches
modelVars == <<models, editingModel, dialogOpen, modelClock>>
socketVars == <<readyState, transmitted, delivered, errorsReported,
                sendLog, received>>
otherVars == <<recordingsVars, modelVars, socketVars>>
\* what the handlers of CallRecordings, of ModelManagement and of the
\* connection leave alone
besidesRecordings == <<agentVars, modelVars, socketVars>>
besidesModels == <<agentVars, recordingsVars, socketVars>>
besidesSocket == <<agentVars, recordingsVars, modelVars>>
vars == <<agentVars, otherVars>>

(* ------------------------------ bounds --------------------------------- *)
\* turns (captures and text submissions) and connects of one behaviour
MaxTurns == 2
MaxSessions == 1
\* turns and connects of a behaviour of text turns only
MaxTextTurns == 3
MaxTextSessions == 2
\* changes made in the settings dialog in one behaviour
MaxSettingsChanges == 2
\* clicks on play buttons of CallRecordings in one behaviour
MaxPlays == 3
\* clicks and field edits in ModelManagement in one behaviour
MaxModelEvents == 4
\* sends, received messages and error events of a connection
MaxSocketEvents == 4

(* ----------------------- constants of the source ----------------------- *)
\* setTimeout delays, in ticks of 500 ms
TranscriptionDelay1 == 2
TranscriptionDelay2 == 4
VoiceResponseDelay == 4
TextResponseDelay == 3
\* confidence: 0.95, in percent
VoiceConfidence == 95

\* setTimeout delays of CallRecordings, in ticks of 1000 ms
LoadDelay == 1
PlaybackDelay == 3
\* ids of the mock recordings
RecordingIds == {"1", "2", "3", "4"}

Undefined == "undefined"
Null == "null"
WelcomeText == <<"Hello! I'm your voice assistant. How can I help you today?">>
Fragment1 == <<"Hello, I need help with...">>
Fragment2 == <<"Hello, I need help with my account settings">>
DefaultTranscription == <<"Hello, I need help with my account settings">>
VoiceReply == <<"I'd be happy to help you with your account settings. Could you please specify what particular setting you'd like to modify or learn about?">>

Languages == {"en", "hi", "bn", "ta"}
SttModels == {"whisper-large-v3", "whisper-medium"}
TtsModels == {"simba-multilingual", "elevenlabs"}
LlmModels == {"llama3-70b-8192", "llama3-8b-8192", "mixtral-8x7b-32768"}
InitialSettings ==
  [language |-> "en", sttModel |-> "whisper-large-v3",
   ttsModel |-> "simba-multilingual", llmModel |-> "llama3-70b-8192"]

\* what the user may type in the text field
TypedTexts == {<<" ">>, <<" ", "hi">>}

(* ------------------------------ helpers -------------------------------- *)
IsSpace(c) == c = " "

RECURSIVE TrimStart(_)
TrimStart(s) ==
  IF s = <<>> THEN <<>>
  ELSE IF IsSpace(Head(s)) THEN TrimStart(Tail(s)) ELSE s

RECURSIVE TrimEnd(_)
TrimEnd(s) ==
  IF s = <<>> THEN <<>>
  ELSE IF IsSpace(s[Len(s)]) THEN TrimEnd(SubSeq(s, 1, Len(s) - 1)) ELSE s

\* String.prototype.trim
Trim(s) == TrimEnd(TrimStart(s))

\* a || b on strings: the empty string is falsy
OrElse(a, b) == IF a = <<>> THEN b ELSE a

TextReply(content) ==
  <<"I understand you said: \"">> \o content \o <<"\". Let me help you with that.">>

Message(type, content, language, confidence, turn) ==
  [type |-> type, content |-> content, language |-> language,
   confidence |-> confidence, turn |-> turn]

\* the session state the chips of the page show
SessionState ==
  IF ~isConnected THEN "Disconnected"
  ELSE IF isProcessing THEN "Processing"
  ELSE IF isRecording THEN "Capturing"
  ELSE "Idle"

Op(op, accepted) == [op |-> op, accepted |-> accepted]

Timer(kind, rem, turn, text) ==
  [kind |-> kind, rem |-> rem, turn |-> turn, text |-> text]

\* JSON values: the number 1 and arrays of at most one value
JsonNumber == [kind |-> "number"]
JsonArray(items) == [kind |-> "array", items |-> items]

\* data given to send
SendData == {JsonNumber, JsonArray(<<>>), JsonArray(<<JsonNumber>>)}

\* texts of messages that arrive, as tokens
ReceivedTexts ==
  {<<"1">>, <<"[", "]">>, <<" ", "[", "1", "]">>, <<>>, <<"[">>,
   <<"1", "1">>, <<"]", "[">>}

\* JSON.stringify
RECURSIVE JsonStringify(_)
JsonStringify(v) ==
  IF v.kind = "number" THEN <<"1">>
  ELSE IF v.items = <<>> THEN <<"[", "]">>
  ELSE <<"[">> \o JsonStringify(v.items[1]) \o <<"]">>

SyntaxError == [ok |-> FALSE, value |-> JsonNumber, rest |-> <<>>]

\* one JSON value at the head of s, whitespace skipped
RECURSIVE ParseValue(_)
ParseValue(s) ==
  LET t == TrimStart(s) IN
  IF t = <<>> THEN SyntaxError
  ELSE IF Head(t) = "1"
  THEN [ok |-> TRUE, value |-> JsonNumber, rest |-> Tail(t)]
  ELSE IF Head(t) = "["
  THEN LET u == TrimStart(Tail(t)) IN
       IF u # <<>> /\ Head(u) = "]"
       THEN [ok |-> TRUE, value |-> JsonArray(<<>>), rest |-> Tail(u)]
       ELSE LET r == ParseValue(u)
                w == TrimStart(r.rest)
            IN IF r.ok /\ w # <<>> /\ Head(w) = "]"
               THEN [ok |-> TRUE, value |-> JsonArray(<<r.value>>),
                     rest |-> Tail(w)]
               ELSE SyntaxError
  ELSE SyntaxError

\* JSON.parse: ok is FALSE when it throws
JsonParse(s) ==
  LET r == ParseValue(s) IN
  IF r.ok /\ TrimStart(r.rest) = <<>> THEN r ELSE SyntaxError

\* editingModel when no model is edited (null)
NoModel == [id |-> Null]

\* mockModels of ModelManagement; lastUpdated is the time of the last save,
\* 0 at mount; numbers are written as in the source
MockModels ==
  <<[id |-> "stt-1", type |-> "stt", lastUpdated |-> 0,
     config |-> [language |-> "en", temperature |-> "0.0",
                 response_format |-> "text"]],
    [id |-> "tts-1", type |-> "tts", lastUpdated |-> 0,
     config |-> [voice_id |-> "default", speed |-> "1.0", pitch |-> "1.0"]],
    [id |-> "llm-1", type |-> "llm", lastUpdated |-> 0,
     config |-> [temperature |-> "0.7", max_tokens |-> "4096",
                 top_p |-> "0.9"]],
    [id |-> "emb-1", type |-> "embedding", lastUpdated |-> 0,
     config |-> [normalize_embeddings |-> "true", batch_size |-> "32"]]>>

\* the fields the configuration dialog edits for a model type
ConfigFields(type) ==
  IF type = "stt" THEN {"language", "temperature"}
  ELSE IF type = "tts" THEN {"voice_id", "speed", "pitch"}
  ELSE IF type = "llm" THEN {"temperature", "max_tokens", "top_p"}
  ELSE {"normalize_embeddings", "batch_size"}

\* values a field may be given: the menu items of a select, the ends of a
\* slider, a typed text or number (parseInt of a non-number is NaN)
FieldValues(type, field) ==
  IF field = "language" THEN {"en", "hi", "bn", "auto"}
  ELSE IF field = "temperature" THEN
    IF type = "stt" THEN {"0", "1"} ELSE {"0", "2"}
  ELSE IF field = "voice_id" THEN {"", "voice-2"}
  ELSE IF field \in {"speed", "pitch"} THEN {"0.5", "2"}
  ELSE IF field = "top_p" THEN {"0", "1"}
  ELSE IF field = "normalize_embeddings" THEN {"true", "false"}
  ELSE {"NaN", "64"}

\* a pending setTimeout of CallRecordings; id is the recording whose
\* playback registered it
RecordingsTimer(kind, rem, id) == [kind |-> kind, rem |-> rem, id |-> id]

\* the record of a turn: what the handlers did for it
NewTurn(origin) ==
  [origin |-> origin, session |-> connId, startConfig |-> voiceSettings,
   language |-> Undefined, payload |-> <<>>, fragments |-> <<>>,
   ended |-> FALSE, cancelled |-> FALSE, responded |-> FALSE,
   events |-> <<>>]

(* ------------------------------- Init ---------------------------------- *)
\* the connection when createWebSocketConnection returns; sendLog and
\* received record the calls of send and the messages that arrived
InitSocket ==
  /\ readyState = "CONNECTING"
  /\ transmitted = <<>>
  /\ delivered = <<>>
  /\ errorsReported = 0
  /\ sendLog = <<>>
  /\ received = <<>>

\* ModelManagement after mount: the effect has set the mock models
InitModels ==
  /\ models = MockModels
  /\ editingModel = NoModel
  /\ dialogOpen = FALSE
  /\ modelClock = 0

\* CallRecordings after mount: the effect has scheduled the mock load
InitRecordings ==
  /\ recordings = {}
  /\ loading = TRUE
  /\ playingId = Null
  /\ playbackTimers = <<RecordingsTimer("load", LoadDelay, Null)>>
  /\ plays = 0

Init ==
  /\ isConnected = FALSE
  /\ isRecording = FALSE
  /\ conversation = <<>>
  /\ currentTranscription = <<>>
  /\ isProcessing = FALSE
  /\ textInput = <<>>
  /\ voiceSettings = InitialSettings
  /\ timers = <<>>
  /\ turns = <<>>
  /\ curTurn = 0
  /\ connId = 0
  /\ appended = <<>>
  /\ lastOp = Op("none", TRUE)
  /\ settingsChanges = 0
  /\ InitRecordings
  /\ InitModels
  /\ InitSocket

(* ------------------------------ actions -------------------------------- *)
\* "Connect to Voice Agent" button, rendered while not connected
ConnectWithin(limit) ==
  /\ ~isConnected
  /\ connId < limit
  /\ isConnected' = TRUE
  /\ conversation' = <<Message("agent", WelcomeText, Undefined, 0, 0)>>
  /\ connId' = connId + 1
  /\ lastOp' = Op("none", TRUE)
  /\ UNCHANGED <<isRecording, currentTranscription, isProcessing, textInput,
                 voiceSettings, timers, turns, curTurn, appended,
                 settingsChanges>>
  /\ UNCHANGED otherVars

HandleConnect == ConnectWithin(MaxSessions)

\* a turn the disconnect finds unfinished is cancelled by it
CancelTurn(turn) ==
  IF turn.responded \/ turn.cancelled THEN turn
  ELSE [turn EXCEPT !.cancelled = TRUE, !.events = Append(@, "cancelled")]

HandleDisconnectKeepsProcessing ==
  /\ isConnected
  /\ isConnected' = FALSE
  /\ isRecording' = FALSE
  /\ isProcessing' = isProcessing
  /\ turns' = [t \in DOMAIN turns |-> CancelTurn(turns[t])]
  /\ curTurn' = 0
  /\ lastOp' = Op("none", TRUE)
  /\ UNCHANGED <<conversation, currentTranscription, textInput,
                 voiceSettings, timers, connId, appended, settingsChanges>>
  /\ UNCHANGED otherVars

\* "Disconnect" button, rendered while connected; no timer is cleared
HandleDisconnect ==
  /\ isConnected
  /\ isConnected' = FALSE
  /\ isRecording' = FALSE
  /\ isProcessing' = FALSE
  /\ turns' = [t \in DOMAIN turns |-> CancelTurn(turns[t])]
  /\ curTurn' = 0
  /\ lastOp' = Op("none", TRUE)
  /\ UNCHANGED <<conversation, currentTranscription, textInput,
                 voiceSettings, timers, connId, appended, settingsChanges>>
  /\ UNCHANGED otherVars

RecordButtonNeverDisabled == FALSE

\* the record button: disabled={isProcessing}
RecordButtonDisabled == isProcessing

\* the record button is rendered while connected and reads "Start Recording"
\* while not recording, "Stop Recording" while recording
StartAvailable == isConnected /\ ~isRecording /\ ~RecordButtonDisabled
StopAvailable == isConnected /\ isRecording /\ ~RecordButtonDisabled

StartTranscriptionKept == currentTranscription

\* setCurrentTranscription('') of handleStartRecording
StartTranscription == <<>>

\* handleStartRecording
HandleStartRecording ==
  IF ~isConnected
  THEN UNCHANGED <<isRecording, currentTranscription, timers, turns,
                   curTurn, appended>>
  ELSE /\ isRecording' = TRUE
       /\ currentTranscription' = StartTranscription
       /\ timers' = timers \o
            <<Timer("transcription", TranscriptionDelay1, Len(turns) + 1, Fragment1),
              Timer("transcription", TranscriptionDelay2, Len(turns) + 1, Fragment2)>>
       /\ turns' = Append(turns, NewTurn("voice"))
       /\ curTurn' = Len(turns) + 1
       /\ appended' = <<>>

\* beginCapture: a request to start a capture.  The page serves it only
\* through the enabled "Start Recording" button; otherwise nothing runs.
BeginCapture ==
  IF StartAvailable
  THEN /\ Len(turns) < MaxTurns
       /\ HandleStartRecording
       /\ lastOp' = Op("beginCapture", TRUE)
       /\ UNCHANGED <<isConnected, conversation, isProcessing, textInput,
                      voiceSettings, connId, settingsChanges>>
       /\ UNCHANGED otherVars
  ELSE /\ lastOp' = Op("beginCapture", FALSE)
       /\ UNCHANGED <<uiVars, timers, turns, curTurn, connId, appended,
                      settingsChanges>>
       /\ UNCHANGED otherVars

StopContentNoDefault == currentTranscription

\* userMessage.content of handleStopRecording
StopContent == OrElse(currentTranscription, DefaultTranscription)

\* userMessage.language of handleStopRecording
StopLanguage == voiceSettings.language

StopGuardMissing == FALSE

\* if (!isRecording) return; of handleStopRecording
StopGuard == ~isRecording

\* handleStopRecording
HandleStopRecording ==
  IF StopGuard
  THEN UNCHANGED <<isRecording, isProcessing, conversation,
                   currentTranscription, timers, turns, curTurn>>
  ELSE /\ isRecording' = FALSE
       /\ isProcessing' = TRUE
       /\ conversation' = Append(conversation,
            Message("user", StopContent, StopLanguage, VoiceConfidence, curTurn))
       /\ currentTranscription' = <<>>
       /\ timers' = Append(timers,
            Timer("voiceResponse", VoiceResponseDelay, curTurn, <<>>))
       /\ turns' = [turns EXCEPT ![curTurn] =
            [@ EXCEPT !.ended = TRUE, !.language = StopLanguage,
                      !.payload = StopContent, !.fragments = appended,
                      !.events = Append(@, "transcript_final")]]
       /\ curTurn' = 0

\* endCapture: the enabled "Stop Recording" button
EndCapture ==
  /\ StopAvailable
  /\ HandleStopRecording
  /\ lastOp' = Op("none", TRUE)
  /\ UNCHANGED <<isConnected, textInput, voiceSettings, connId, appended,
                 settingsChanges>>
  /\ UNCHANGED otherVars

\* handleStopRecording called in any state of the page
StopRecordingCall ==
  /\ HandleStopRecording
  /\ lastOp' = Op("endCapture", isRecording)
  /\ UNCHANGED <<isConnected, textInput, voiceSettings, connId, appended,
                 settingsChanges>>
  /\ UNCHANGED otherVars

CatchKeepsProcessing == TRUE

\* setIsProcessing(false) of the catch block of handleStopRecording
CatchProcessing == FALSE

\* handleStopRecording when its try block throws where the processing of
\* the recording starts: the flags are set, the user message is appended,
\* no response timer is registered, and the catch block runs
HandleStopRecordingFails ==
  /\ isRecording
  /\ isRecording' = FALSE
  /\ isProcessing' = CatchProcessing
  /\ conversation' = Append(conversation,
       Message("user", StopContent, StopLanguage, VoiceConfidence, curTurn))
  /\ currentTranscription' = <<>>
  /\ timers' = timers
  /\ turns' = [turns EXCEPT ![curTurn] =
       [@ EXCEPT !.ended = TRUE, !.language = StopLanguage,
                 !.payload = StopContent, !.fragments = appended,
                 !.events = @ \o <<"transcript_final", "stage_failed">>]]
  /\ curTurn' = 0

\* the enabled "Stop Recording" button, the processing failing
EndCaptureFails ==
  /\ StopAvailable
  /\ HandleStopRecordingFails
  /\ lastOp' = Op("none", TRUE)
  /\ UNCHANGED <<isConnected, textInput, voiceSettings, connId, appended,
                 settingsChanges>>
  /\ UNCHANGED otherVars

\* the text field: disabled={!isConnected || isProcessing}
TextFieldEnabled == isConnected /\ ~isProcessing

\* onChange of the text field
TypeText ==
  /\ TextFieldEnabled
  /\ \E v \in TypedTexts : textInput' = v
  /\ UNCHANGED <<isConnected, isRecording, conversation,
                 currentTranscription, isProcessing, voiceSettings, timers,
                 turns, curTurn, connId, appended, lastOp, settingsChanges>>
  /\ UNCHANGED otherVars

TextContentTrimmed == Trim(textInput)

\* userMessage.content of handleTextSubmit
TextContent == textInput

\* handleTextSubmit, reached by Enter in the text field or the send button,
\* in a behaviour of at most limit turns
TextSubmitWithin(limit) ==
  /\ TextFieldEnabled
  /\ IF Trim(textInput) = <<>> \/ ~isConnected
     THEN UNCHANGED <<conversation, textInput, isProcessing, timers, turns>>
     ELSE /\ Len(turns) < limit
          /\ conversation' = Append(conversation,
               Message("user", TextContent, Undefined, 0, Len(turns) + 1))
          /\ textInput' = <<>>
          /\ isProcessing' = TRUE
          /\ timers' = Append(timers,
               Timer("textResponse", TextResponseDelay, Len(turns) + 1, TextContent))
          /\ turns' = Append(turns,
               [NewTurn("text") EXCEPT !.ended = TRUE, !.payload = textInput,
                                       !.events = <<"transcript_final">>])
  /\ lastOp' = Op("none", TRUE)
  /\ UNCHANGED <<isConnected, isRecording, currentTranscription,
                 voiceSettings, curTurn, connId, appended, settingsChanges>>
  /\ UNCHANGED otherVars

HandleTextSubmit == TextSubmitWithin(MaxTurns)

\* handleClearConversation, button disabled={!isConnected}
HandleClearConversation ==
  /\ isConnected
  /\ conversation' = <<>>
  /\ UNCHANGED <<isConnected, isRecording, currentTranscription,
                 isProcessing, textInput, voiceSettings, timers, turns,
                 curTurn, connId, appended, lastOp, settingsChanges>>
  /\ UNCHANGED otherVars

\* onChange of the selects of the settings dialog: applied at once.  The
\* dialog opens from the settings button, disabled={!isConnected}.
ChangeSettings(new) ==
  /\ isConnected
  /\ settingsChanges < MaxSettingsChanges
  /\ new # voiceSettings
  /\ voiceSettings' = new
  /\ settingsChanges' = settingsChanges + 1
  /\ UNCHANGED <<isConnected, isRecording, conversation,
                 currentTranscription, isProcessing, textInput, timers,
                 turns, curTurn, connId, appended, lastOp>>
  /\ UNCHANGED otherVars

SetLanguage ==
  \E v \in Languages : ChangeSettings([voiceSettings EXCEPT !.language = v])
SetSttModel ==
  \E v \in SttModels : ChangeSettings([voiceSettings EXCEPT !.sttModel = v])
SetTtsModel ==
  \E v \in TtsModels : ChangeSettings([voiceSettings EXCEPT !.ttsModel = v])
SetLlmModel ==
  \E v \in LlmModels : ChangeSettings([voiceSettings EXCEPT !.llmModel = v])

(* ------------------------------- timers -------------------------------- *)
Due == {i \in DOMAIN timers : timers[i].rem = 0}

RemoveAt(s, i) == SubSeq(s, 1, i - 1) \o SubSeq(s, i + 1, Len(s))

\* the earliest registered due timer
FirstDue == CHOOSE i \in Due : \A j \in Due : i <= j

\* 500 ms pass; a due timer fires before time advances
Tick ==
  /\ timers # <<>>
  /\ Due = {}
  /\ timers' = [i \in DOMAIN timers |-> [timers[i] EXCEPT !.rem = @ - 1]]
  /\ UNCHANGED <<uiVars, turns, curTurn, connId, appended, lastOp,
                 settingsChanges>>
  /\ UNCHANGED otherVars

\* callback of the two setTimeout calls of handleStartRecording
TranscriptionUpdate(tm) ==
  /\ currentTranscription' = tm.text
  /\ appended' = IF isRecording THEN Append(appended, tm.text) ELSE appended
  /\ turns' = [turns EXCEPT ![tm.turn].events = Append(@, "transcript_partial")]
  /\ UNCHANGED <<isConnected, isRecording, conversation, isProcessing,
                 textInput, voiceSettings, curTurn, connId, lastOp,
                 settingsChanges>>

\* what the consumer sees of a response callback: the response and, when
\* the session becomes Idle by it, the new state
ResponseEvents(before, after) ==
  IF after = "Idle" /\ before # "Idle"
  THEN <<"response_final", "state_idle">>
  ELSE <<"response_final">>

VoiceResponseKeepsProcessing(tm) ==
  /\ conversation' = Append(conversation,
       Message("agent", VoiceReply, Undefined, 0, tm.turn))
  /\ isProcessing' = isProcessing
  /\ UNCHANGED <<isConnected, isRecording, currentTranscription, textInput,
                 voiceSettings, curTurn, connId, appended, lastOp,
                 settingsChanges>>
  /\ turns' = [turns EXCEPT ![tm.turn] =
       [@ EXCEPT !.responded = TRUE,
                 !.events = @ \o ResponseEvents(SessionState, SessionState')]]

\* callback of the setTimeout call of handleStopRecording
VoiceResponse(tm) ==
  /\ conversation' = Append(conversation,
       Message("agent", VoiceReply, Undefined, 0, tm.turn))
  /\ isProcessing' = FALSE
  /\ UNCHANGED <<isConnected, isRecording, currentTranscription, textInput,
                 voiceSettings, curTurn, connId, appended, lastOp,
                 settingsChanges>>
  /\ turns' = [turns EXCEPT ![tm.turn] =
       [@ EXCEPT !.responded = TRUE,
                 !.events = @ \o ResponseEvents(SessionState, SessionState')]]

TextResponseReplaces(tm) ==
  /\ conversation' =
       <<Message("agent", TextReply(tm.text), Undefined, 0, tm.turn)>>
  /\ isProcessing' = FALSE
  /\ UNCHANGED <<isConnected, isRecording, currentTranscription, textInput,
                 voiceSettings, curTurn, connId, appended, lastOp,
                 settingsChanges>>
  /\ turns' = [turns EXCEPT ![tm.turn] =
       [@ EXCEPT !.responded = TRUE,
                 !.events = @ \o ResponseEvents(SessionState, SessionState')]]

\* callback of the setTimeout call of handleTextSubmit
TextResponse(tm) ==
  /\ conversation' = Append(conversation,
       Message("agent", TextReply(tm.text), Undefined, 0, tm.turn))
  /\ isProcessing' = FALSE
  /\ UNCHANGED <<isConnected, isRecording, currentTranscription, textInput,
                 voiceSettings, curTurn, connId, appended, lastOp,
                 settingsChanges>>
  /\ turns' = [turns EXCEPT ![tm.turn] =
       [@ EXCEPT !.responded = TRUE,
                 !.events = @ \o ResponseEvents(SessionState, SessionState')]]

FireTranscription ==
  /\ Due # {}
  /\ timers[FirstDue].kind = "transcription"
  /\ TranscriptionUpdate(timers[FirstDue])
  /\ timers' = RemoveAt(timers, FirstDue)
  /\ UNCHANGED otherVars

FireVoiceResponse ==
  /\ Due # {}
  /\ timers[FirstDue].kind = "voiceResponse"
  /\ VoiceResponse(timers[FirstDue])
  /\ timers' = RemoveAt(timers, FirstDue)
  /\ UNCHANGED otherVars

FireTextResponse ==
  /\ Due # {}
  /\ timers[FirstDue].kind = "textResponse"
  /\ TextResponse(timers[FirstDue])
  /\ timers' = RemoveAt(timers, FirstDue)
  /\ UNCHANGED otherVars

(* --------------------------- CallRecordings ---------------------------- *)
PlaybackDue == {i \in DOMAIN playbackTimers : playbackTimers[i].rem = 0}

FirstPlaybackDue == CHOOSE i \in PlaybackDue : \A j \in PlaybackDue : i <= j

\* 1000 ms pass; a due timer fires before time advances
RecordingsTick ==
  /\ playbackTimers # <<>>
  /\ PlaybackDue = {}
  /\ playbackTimers' =
       [i \in DOMAIN playbackTimers |-> [playbackTimers[i] EXCEPT !.rem = @ - 1]]
  /\ UNCHANGED <<recordings, loading, playingId, plays>>
  /\ UNCHANGED besidesRecordings

\* callback of the setTimeout of the mount effect
LoadRecordings ==
  /\ PlaybackDue # {}
  /\ playbackTimers[FirstPlaybackDue].kind = "load"
  /\ recordings' = RecordingIds
  /\ loading' = FALSE
  /\ playbackTimers' = RemoveAt(playbackTimers, FirstPlaybackDue)
  /\ UNCHANGED <<playingId, plays>>
  /\ UNCHANGED besidesRecordings

\* handlePlay(id), from the play button of a listed recording
HandlePlay(id) ==
  /\ plays < MaxPlays
  /\ plays' = plays + 1
  /\ IF playingId = id
     THEN /\ playingId' = Null
          /\ UNCHANGED playbackTimers
     ELSE /\ playingId' = id
          /\ playbackTimers' =
               Append(playbackTimers, RecordingsTimer("playbackEnd", PlaybackDelay, id))
  /\ UNCHANGED <<recordings, loading>>
  /\ UNCHANGED besidesRecordings

PlayClicked == \E id \in recordings : HandlePlay(id)

\* callback of the setTimeout of handlePlay
PlaybackEnds ==
  /\ PlaybackDue # {}
  /\ playbackTimers[FirstPlaybackDue].kind = "playbackEnd"
  /\ playingId' = Null
  /\ playbackTimers' = RemoveAt(playbackTimers, FirstPlaybackDue)
  /\ UNCHANGED <<recordings, loading, plays>>
  /\ UNCHANGED besidesRecordings

NextRecordings ==
  \/ RecordingsTick
  \/ LoadRecordings
  \/ PlayClicked
  \/ PlaybackEnds

SpecRecordings == Init /\ [][NextRecordings]_vars

(* --------------------------- ModelManagement --------------------------- *)
\* handleEditModel(model), from the Configure button of a model card
HandleEditModel(i) ==
  /\ ~dialogOpen
  /\ modelClock < MaxModelEvents
  /\ editingModel' = models[i]
  /\ dialogOpen' = TRUE
  /\ modelClock' = modelClock + 1
  /\ UNCHANGED models
  /\ UNCHANGED besidesModels

ConfigureClicked == \E i \in DOMAIN models : HandleEditModel(i)

\* onChange of a field of the dialog: setEditingModel with a new config
EditField ==
  /\ dialogOpen
  /\ editingModel # NoModel
  /\ modelClock < MaxModelEvents
  /\ \E f \in ConfigFields(editingModel.type) :
       \E v \in FieldValues(editingModel.type, f) :
         editingModel' = [editingModel EXCEPT !.config[f] = v]
  /\ modelClock' = modelClock + 1
  /\ UNCHANGED <<models, dialogOpen>>
  /\ UNCHANGED besidesModels

\* Cancel button and onClose of the dialog
CloseDialog ==
  /\ dialogOpen
  /\ dialogOpen' = FALSE
  /\ UNCHANGED <<models, editingModel, modelClock>>
  /\ UNCHANGED besidesModels

SaveMatchesOthers(m) == m.id # editingModel.id

\* m.id === editingModel.id of handleSaveModel
SaveMatches(m) == m.id = editingModel.id

\* handleSaveModel, from the Save Configuration button of the dialog
HandleSaveModel ==
  /\ dialogOpen
  /\ modelClock < MaxModelEvents
  /\ modelClock' = modelClock + 1
  /\ IF editingModel = NoModel
     THEN UNCHANGED <<models, editingModel, dialogOpen>>
     ELSE /\ models' =
               [i \in DOMAIN models |->
                  IF SaveMatches(models[i])
                  THEN [editingModel EXCEPT !.lastUpdated = modelClock']
                  ELSE models[i]]
          /\ dialogOpen' = FALSE
          /\ editingModel' = NoModel
  /\ UNCHANGED besidesModels

NextModels ==
  \/ ConfigureClicked
  \/ EditField
  \/ CloseDialog
  \/ HandleSaveModel

SpecModels == Init /\ [][NextModels]_vars

(* ------------------------ createWebSocketConnection -------------------- *)
SocketEvents == Len(sendLog) + Len(received) + errorsReported

\* socket.onopen
SocketOpens ==
  /\ readyState = "CONNECTING"
  /\ readyState' = "OPEN"
  /\ UNCHANGED <<transmitted, delivered, errorsReported, sendLog, received>>
  /\ UNCHANGED besidesSocket

SendAlways == TRUE

\* socket.readyState === WebSocket.OPEN of send
SendAllowed == readyState = "OPEN"

\* send(data) of the returned object
Send(data) ==
  /\ SocketEvents < MaxSocketEvents
  /\ sendLog' = Append(sendLog, [data |-> data, state |-> readyState])
  /\ transmitted' = IF SendAllowed
                    THEN Append(transmitted, JsonStringify(data))
                    ELSE transmitted
  /\ UNCHANGED <<readyState, delivered, errorsReported, received>>
  /\ UNCHANGED besidesSocket

SendCalled == \E data \in SendData : Send(data)

\* close() of the returned object: socket.close()
Close ==
  /\ readyState' = IF readyState \in {"CONNECTING", "OPEN"}
                  THEN "CLOSING" ELSE readyState
  /\ readyState' # readyState
  /\ UNCHANGED <<transmitted, delivered, errorsReported, sendLog, received>>
  /\ UNCHANGED besidesSocket

\* socket.onclose: the connection failed, was closed by the peer or has
\* finished closing
SocketCloses ==
  /\ readyState # "CLOSED"
  /\ readyState' = "CLOSED"
  /\ UNCHANGED <<transmitted, delivered, errorsReported, sendLog, received>>
  /\ UNCHANGED besidesSocket

\* socket.onmessage: JSON.parse in a try block, onMessage(data) after it
OnMessage(text) ==
  /\ readyState \in {"OPEN", "CLOSING"}
  /\ SocketEvents < MaxSocketEvents
  /\ received' = Append(received, text)
  /\ delivered' = IF JsonParse(text).ok
                  THEN Append(delivered, JsonParse(text).value)
                  ELSE delivered
  /\ UNCHANGED <<readyState, transmitted, errorsReported, sendLog>>
  /\ UNCHANGED besidesSocket

MessageArrives == \E text \in ReceivedTexts : OnMessage(text)

\* socket.onerror, onError being given
OnError ==
  /\ readyState # "CLOSED"
  /\ SocketEvents < MaxSocketEvents
  /\ errorsReported' = errorsReported + 1
  /\ UNCHANGED <<readyState, transmitted, delivered, sendLog, received>>
  /\ UNCHANGED besidesSocket

NextSocket ==
  \/ SocketOpens
  \/ SendCalled
  \/ Close
  \/ SocketCloses
  \/ MessageArrives
  \/ OnError

SpecSocket == Init /\ [][NextSocket]_vars

(* --------------------------- specifications ---------------------------- *)
\* the page with the settings left as they are
Next ==
  \/ HandleConnect
  \/ HandleDisconnect
  \/ BeginCapture
  \/ EndCapture
  \/ TypeText
  \/ HandleTextSubmit
  \/ HandleClearConversation
  \/ Tick
  \/ FireTranscription
  \/ FireVoiceResponse
  \/ FireTextResponse

Spec == Init /\ [][Next]_vars

\* voice turns with the settings dialog in use
NextSettings ==
  \/ HandleConnect
  \/ BeginCapture
  \/ EndCapture
  \/ SetLanguage
  \/ SetSttModel
  \/ SetTtsModel
  \/ SetLlmModel
  \/ Tick
  \/ FireTranscription
  \/ FireVoiceResponse

SpecSettings == Init /\ [][NextSettings]_vars

Reconnect == ConnectWithin(MaxTextSessions)

SubmitText == TextSubmitWithin(MaxTextTurns)

\* text turns only, over several connections
NextText ==
  \/ Reconnect
  \/ HandleDisconnect
  \/ TypeText
  \/ SubmitText
  \/ Tick
  \/ FireTextResponse

SpecText == Init /\ [][NextText]_vars

\* text turns over several connections, the conversation being cleared
NextHistory ==
  \/ Reconnect
  \/ HandleDisconnect
  \/ TypeText
  \/ SubmitText
  \/ HandleClearConversation
  \/ Tick
  \/ FireTextResponse

SpecHistory == Init /\ [][NextHistory]_vars

\* voice turns with handleStopRecording called at any time
NextClose ==
  \/ HandleConnect
  \/ HandleDisconnect
  \/ BeginCapture
  \/ StopRecordingCall
  \/ Tick
  \/ FireTranscription
  \/ FireVoiceResponse

SpecClose == Init /\ [][NextClose]_vars

\* endCapture of the end-to-end run: after two appendInput
RunEndCapture ==
  /\ Len(appended) = 2
  /\ EndCapture

\* the end-to-end run: connect, beginCapture, two appendInput, endCapture,
\* the response; the user may type and clear meanwhile
NextRun ==
  \/ HandleConnect
  \/ BeginCapture
  \/ RunEndCapture
  \/ TypeText
  \/ HandleClearConversation
  \/ Tick
  \/ FireTranscription
  \/ FireVoiceResponse

SpecRun == Init /\ [][NextRun]_vars

\* voice turns where the processing of a recording may fail
NextFail ==
  \/ HandleConnect
  \/ HandleDisconnect
  \/ BeginCapture
  \/ EndCapture
  \/ EndCaptureFails
  \/ Tick
  \/ FireTranscription
  \/ FireVoiceResponse

SpecFail == Init /\ [][NextFail]_vars

(* ------------------------- status of a turn ---------------------------- *)
StageFailed(turn) == \E i \in DOMAIN turn.events : turn.events[i] = "stage_failed"

\* The component stores no status; it is read off what the handlers did for
\* the turn: done once its response is appended, cancelled once a disconnect
\* found it unfinished, failed once the catch block ran for it, in flight
\* (thinking) once its input is handed over.
TurnStatus(turn) ==
  IF turn.responded THEN "done"
  ELSE IF turn.cancelled THEN "cancelled"
  ELSE IF StageFailed(turn) THEN "failed"
  ELSE IF turn.ended THEN "thinking"
  ELSE "pending"

InFlight(turn) == TurnStatus(turn) \in {"transcribing", "thinking", "speaking"}

TurnsInFlight(s) ==
  {t \in DOMAIN turns : turns[t].session = s /\ InFlight(turns[t])}

(* ------------------------------- claims -------------------------------- *)
\* C1: in every reachable state a session has at most one turn in flight
\* (transcribing, thinking or speaking).
C1_AtMostOneTurnInFlight ==
  \A s \in 1..connId : Cardinality(TurnsInFlight(s)) <= 1

\* C2: once a turn in Processing is cancelled, no response_final and no
\* audio_chunk event is emitted for it at any later point.
C2_NoResponseAfterCancel ==
  \A t \in DOMAIN turns :
    \A i, j \in DOMAIN turns[t].events :
      (i < j /\ turns[t].events[i] = "cancelled")
        => turns[t].events[j] \notin {"response_final", "audio_chunk"}

\* C3: disconnect leaves the session Disconnected with nothing recording or
\* processing, and no result of a turn started before a disconnect is
\* delivered or recorded after it: a response is recorded only while the
\* session the turn belongs to is still connected.
C3_DisconnectDropsResults ==
  [][/\ (isConnected /\ ~isConnected')
          => (~isRecording' /\ ~isProcessing' /\ curTurn' = 0)
     /\ \A t \in DOMAIN turns :
          (turns'[t].responded /\ ~turns[t].responded)
            => (isConnected /\ turns[t].session = connId)]_vars

\* C4: a turn whose status has become cancelled never later has status done.
C4_CancelledNeverDone ==
  [][\A t \in DOMAIN turns :
       TurnStatus(turns[t]) = "cancelled" => TurnStatus(turns'[t]) # "done"]_vars

\* a step that is a beginCapture request, served or refused
BeginRequested ==
  /\ lastOp'.op = "beginCapture"
  /\ lastOp' # lastOp \/ Len(turns') # Len(turns)

\* what a refused request leaves alone
SessionUnchanged == UNCHANGED <<uiVars, timers, turns, curTurn, appended>>

\* C5 as stated: beginCapture issued while the session is Processing or
\* Responding cancels the current turn and then the session is Capturing
\* with a new turn.
C5_BargeInCancelsTurn ==
  [][(BeginRequested /\ SessionState \in {"Processing", "Responding"})
       => /\ SessionState' = "Capturing"
          /\ Len(turns') = Len(turns) + 1
          /\ \A t \in DOMAIN turns :
               InFlight(turns[t]) => turns'[t].cancelled]_vars

\* C5 as amended: beginCapture issued while the session is Processing is
\* refused; the session, the turn in flight and the pending timers stay as
\* they are and no turn is cancelled.  A capture starts only while the
\* session is not Processing, and it cancels no turn.
C5_NoBargeIn ==
  [][/\ (BeginRequested /\ SessionState = "Processing")
          => (~lastOp'.accepted /\ SessionUnchanged)
     /\ (isRecording' /\ ~isRecording)
          => /\ ~isProcessing
             /\ \A t \in DOMAIN turns :
                  turns'[t].cancelled = turns[t].cancelled]_vars

C5_Witness ==
  /\ lastOp = Op("beginCapture", FALSE)
  /\ SessionState = "Processing"
  /\ \E t \in DOMAIN turns : InFlight(turns[t])

C7_TurnKeepsStartConfig ==
  \A t \in DOMAIN turns :
    (turns[t].origin = "voice" /\ turns[t].ended)
      => turns[t].language = turns[t].startConfig.language

RECURSIVE Concat(_)
Concat(fragments) ==
  IF fragments = <<>> THEN <<>>
  ELSE Head(fragments) \o Concat(Tail(fragments))

VoiceTurnsEnded ==
  {t \in DOMAIN turns : turns[t].origin = "voice" /\ turns[t].ended}

\* C8 as stated: the payload assembled at endCapture is the concatenation,
\* in order, of the fragments appended since beginCapture.
C8_PayloadIsConcatenation ==
  \A t \in VoiceTurnsEnded : turns[t].payload = Concat(turns[t].fragments)

\* C8 as amended: the payload assembled at endCapture is the fragment
\* appended last since beginCapture (an append replaces the captured text),
\* or the default text when no fragment was appended.
C8_PayloadIsLastFragment ==
  \A t \in VoiceTurnsEnded :
    turns[t].payload =
      IF turns[t].fragments = <<>> THEN DefaultTranscription
      ELSE turns[t].fragments[Len(turns[t].fragments)]

C8_Witness ==
  \E t \in VoiceTurnsEnded :
    /\ turns[t].fragments = <<Fragment1, Fragment2>>
    /\ turns[t].payload = Fragment2

\* the events of a turn the end-to-end scenario lists
FinalEvents(turn) ==
  SelectSeq(turn.events,
            LAMBDA e : e \in {"transcript_final", "response_final",
                              "audio_chunk", "state_idle"})

Stage(e) ==
  IF e \in {"transcript_partial", "transcript_final"} THEN 1
  ELSE IF e \in {"response_partial", "response_final"} THEN 2
  ELSE IF e = "audio_chunk" THEN 3
  ELSE 0

IsFinal(e) == e \in {"transcript_final", "response_final"}

\* C10: the events of a turn are delivered in stage order, and within a
\* stage every Partial precedes the Final.
C10_StageOrder ==
  \A t \in DOMAIN turns :
    \A i, j \in DOMAIN turns[t].events :
      LET a == turns[t].events[i]
          b == turns[t].events[j]
      IN (i < j /\ Stage(a) > 0 /\ Stage(b) > 0)
           => /\ Stage(a) <= Stage(b)
              /\ (Stage(a) = Stage(b) /\ IsFinal(a)) => IsFinal(b)

\* a step in which the processing of a turn fails
StageFails ==
  \E t \in DOMAIN turns : StageFailed(turns'[t]) /\ ~StageFailed(turns[t])

\* C12: a failed turn never ends the session: right after a stage failure
\* the session is Idle (still connected, not stuck in Processing) and a new
\* capture or text turn is accepted; the session becomes Disconnected only
\* by disconnect.
C12_FailureLeavesSessionUsable ==
  [][/\ StageFails
          => /\ SessionState' = "Idle"
             /\ StartAvailable'
             /\ TextFieldEnabled'
     /\ (isConnected /\ ~isConnected')
          => /\ ~StageFails
             /\ ~isRecording' /\ ~isProcessing' /\ curTurn' = 0
             /\ UNCHANGED <<conversation, timers, connId>>]_vars

C12_Witness ==
  /\ Len(turns) = 2
  /\ TurnStatus(turns[1]) = "failed"
  /\ turns[2].session = turns[1].session
  /\ SessionState \in {"Capturing", "Processing"}

IsPrefix(a, b) == Len(a) <= Len(b) /\ SubSeq(b, 1, Len(a)) = a

C15_ConfigChangesOnlyWhenIdle ==
  [][voiceSettings' # voiceSettings => SessionState = "Idle"]_vars

\* a step that delivers a live-transcription update of turn t
AppendInput(t) ==
  /\ Len(turns'[t].events) = Len(turns[t].events) + 1
  /\ turns'[t].events[Len(turns'[t].events)] = "transcript_partial"

\* C16: appendInput is accepted only while the session is Capturing the
\* turn it belongs to; in every other state the captured input is left
\* unchanged.
C16_AppendOnlyWhileCapturing ==
  [][\A t \in DOMAIN turns :
       AppendInput(t)
         => \/ SessionState = "Capturing" /\ curTurn = t
            \/ currentTranscription' = currentTranscription]_vars

\* C19: the session leaves Processing exactly when the response (the LLM
\* Final) of the turn in flight arrives, and is then Idle, no audio being
\* requested; or by a disconnect.
C19_ProcessingEndsAtResponse ==
  [][(SessionState = "Processing" /\ SessionState' # "Processing")
       => \/ SessionState' = "Disconnected"
          \/ /\ SessionState' = "Idle"
             /\ \A t \in DOMAIN turns :
                  (turns[t].session = connId /\ InFlight(turns[t]))
                    => turns'[t].responded]_vars

\* the user messages of text turns the conversation holds
TextMessages ==
  {i \in DOMAIN conversation :
     /\ conversation[i].type = "user"
     /\ turns[conversation[i].turn].origin = "text"}

\* no speech-to-text ran for a text turn: no live-transcription timer was
\* registered for it and no transcript update was delivered
NoStt(t) ==
  /\ \A i \in DOMAIN timers :
       timers[i].turn = t => timers[i].kind = "textResponse"
  /\ \A i \in DOMAIN turns[t].events :
       turns[t].events[i] # "transcript_partial"
  /\ turns[t].fragments = <<>>

\* C20 as stated: for a turn of origin text no speech-to-text runs and the
\* transcript is the submitted text verbatim with confidence 1.0.
C20_TextTurnConfidenceOne ==
  /\ \A t \in DOMAIN turns : turns[t].origin = "text" => NoStt(t)
  /\ \A i \in TextMessages :
       /\ conversation[i].content = turns[conversation[i].turn].payload
       /\ conversation[i].confidence = 100

\* C20 as amended: for a turn of origin text no speech-to-text runs and the
\* transcript is the submitted text verbatim, untrimmed, with no confidence
\* and no language set.
C20_TextTurnVerbatim ==
  /\ \A t \in DOMAIN turns : turns[t].origin = "text" => NoStt(t)
  /\ \A i \in TextMessages :
       /\ conversation[i].content = turns[conversation[i].turn].payload
       /\ conversation[i].confidence = 0
       /\ conversation[i].language = Undefined

C20_Witness ==
  \E i \in TextMessages :
    /\ conversation[i].content = <<" ", "hi">>
    /\ turns[conversation[i].turn].responded
    /\ \E t \in DOMAIN turns : turns[t].origin = "voice"

\* C21: cancelling a turn cancels the stage call active at that moment and
\* no later stage runs for it: once a turn is cancelled no transcript
\* update, no transcript and no response is delivered for it.
C21_CancelStopsStages ==
  \A t \in DOMAIN turns :
    \A i, j \in DOMAIN turns[t].events :
      (i < j /\ turns[t].events[i] = "cancelled")
        => Stage(turns[t].events[j]) = 0

\* C24: sessions are independent: a stage callback of a turn of one session
\* leaves the state, the history and the configuration of every other
\* session unchanged.
C24_SessionsIndependent ==
  [][\A t \in DOMAIN turns :
       (/\ Len(turns'[t].events) > Len(turns[t].events)
        /\ Stage(turns'[t].events[Len(turns'[t].events)]) > 0
        /\ turns[t].session # connId)
         => UNCHANGED uiVars]_vars

\* C25: isRecording or isProcessing being true implies isConnected.
C25_BusyImpliesConnected ==
  (isRecording \/ isProcessing) => isConnected

C25_Witness ==
  /\ ~isConnected
  /\ \E t \in DOMAIN turns :
       /\ turns[t].cancelled
       /\ turns[t].ended
       /\ \E i \in DOMAIN timers : timers[i].turn = t

\* C26: isRecording and isProcessing are never both true.
C26_NeverCapturingAndProcessing ==
  ~(isRecording /\ isProcessing)

\* the turn that set isProcessing: the turn handed over last
SetterTurn ==
  CHOOSE t \in DOMAIN turns :
    /\ turns[t].ended
    /\ \A u \in DOMAIN turns : turns[u].ended => u <= t

\* C27: isProcessing becomes false only when the response of the turn that
\* set it is appended or the session is disconnected, never by a timer of
\* an earlier turn.
C27_ProcessingClearedByOwnTurn ==
  [][(isProcessing /\ ~isProcessing')
       => \/ isConnected /\ ~isConnected'
          \/ /\ ~turns[SetterTurn].responded
             /\ turns'[SetterTurn].responded]_vars

\* a step that is a call of handleStopRecording
CloseCalled == lastOp'.op = "endCapture" /\ lastOp' # lastOp

C29_PlaybackEndsByOwnTimer ==
  [][(/\ playingId # Null
      /\ playingId' = Null
      /\ Len(playbackTimers') < Len(playbackTimers))
       => playbackTimers[FirstPlaybackDue].id = playingId]_vars

\* C28: editing a model leaves the models list unchanged until Save:
\* handleEditModel, a field edit and Cancel change no model, and Save
\* replaces exactly the model whose id is the edited one, every other
\* model and the number, ids and types of the models staying as they are.
C28_ModelsChangeOnlyOnSave ==
  [][/\ (editingModel' # NoModel \/ editingModel = NoModel) => models' = models
     /\ (editingModel # NoModel /\ editingModel' = NoModel)
          => /\ dialogOpen
             /\ DOMAIN models' = DOMAIN models
             /\ \A i \in DOMAIN models :
                  /\ models'[i].id = models[i].id
                  /\ models'[i].type = models[i].type
                  /\ models[i].id # editingModel.id => models'[i] = models[i]
                  /\ models[i].id = editingModel.id
                       => /\ models'[i].config = editingModel.config
                          /\ models'[i].lastUpdated = modelClock']_vars

C28_Witness ==
  /\ editingModel = NoModel
  /\ models[1].config.language = "hi"
  /\ models[1].lastUpdated > 0
  /\ \A i \in 2..Len(models) : models[i] = MockModels[i]

\* the calls of send made while the socket was OPEN
SendsWhileOpen == SelectSeq(sendLog, LAMBDA c : c.state = "OPEN")

\* the received texts that are JSON
ValidTexts == {<<"1">>, <<"[", "]">>, <<" ", "[", "1", "]">>}

ValidReceived == SelectSeq(received, LAMBDA t : t \in ValidTexts)

\* C30: send transmits a message only while the socket is OPEN, a send in
\* any other state being dropped (not queued for later), and a received
\* message that is not valid JSON is never passed to onMessage.
C30_SendOnlyWhenOpen ==
  /\ Len(transmitted) = Len(SendsWhileOpen)
  /\ \A i \in DOMAIN transmitted :
       transmitted[i] = JsonStringify(SendsWhileOpen[i].data)
  /\ Len(delivered) = Len(ValidReceived)
  /\ \A i \in DOMAIN delivered :
       JsonStringify(delivered[i]) = Trim(ValidReceived[i])

C30_Witness ==
  /\ \E i \in DOMAIN sendLog : sendLog[i].state = "CONNECTING"
  /\ Len(transmitted) = 1
  /\ \E i \in DOMAIN received : received[i] \notin ValidTexts
  /\ Len(delivered) = 1
====
